---- MODULE Spec2Model ----
(***************************************************************************)
(* Model of lib/vapi/accessors/MongoAccessor.py: the MongoAccessor object, *)
(* its connect / close operations, its use as a context manager, and the   *)
(* external collaborators it drives (the `oc get secret` command, the      *)
(* cluster pod registry, the `oc port-forward` tunnel subprocess and the   *)
(* pymongo client).                                                       *)
(*                                                                         *)
(* Python values are modelled as follows.                                  *)
(*   - text is a sequence of code points ("root" is <<114,111,111,116>>),  *)
(*     except host and pod names, which are TLA+ strings;                  *)
(*   - an optional dict / str argument is a record with a `type` field     *)
(*     ("NoneType", "dict", "str");                                        *)
(*   - a subprocess or client object is its index in `tunnels` / `clients`,*)
(*     and 0 stands for None;                                              *)
(*   - an exception is the string naming it, "" meaning "no exception".    *)
(***************************************************************************)
EXTENDS Integers, Sequences, FiniteSets, TLC

\* ---------------------------------------------------------------- bounds
\* Number of calls made on the one instance in a behaviour.
MaxCalls == 3
\* Longest pod sequence the registry returns.
MaxPods == 2

\* ------------------------------------------------------------- constants
MongoPort == 27017

VARIABLES
    mongoDbCreds,   \* self.mongoDbCreds
    mongoService,   \* self.mongoService
    cluster,        \* self.cluster: "None" or "cluster"
    mviVersion,     \* self.mviVersion
    tunnelProcess,  \* self.tunnelProcess: 0 (None) or an index of tunnels
    mongoClient,    \* self.mongoClient: 0 (None) or an index of clients
    mviDatabase,    \* self.mviDatabase: 0 (None) or the client it belongs to
    tunnels,        \* every `oc port-forward` subprocess launched so far
    clients,        \* every pymongo.MongoClient constructed so far
    calls,          \* history of the calls made on the instance
    scope           \* position of the `with` statement using the instance

vars == <<mongoDbCreds, mongoService, cluster, mviVersion, tunnelProcess,
          mongoClient, mviDatabase, tunnels, clients, calls, scope>>

\* ------------------------------------------------------------ text values
Str_admin == <<97, 100, 109, 105, 110>>
Str_secret == <<115, 101, 99, 114, 101, 116>>
Str_root == <<114, 111, 111, 116>>
Str_hunter2 == <<104, 117, 110, 116, 101, 114, 50>>

\* The base64 alphabet, as one-character strings; position i holds sextet i-1.
B64Alphabet ==
    <<"A","B","C","D","E","F","G","H","I","J","K","L","M","N","O","P",
      "Q","R","S","T","U","V","W","X","Y","Z","a","b","c","d","e","f",
      "g","h","i","j","k","l","m","n","o","p","q","r","s","t","u","v",
      "w","x","y","z","0","1","2","3","4","5","6","7","8","9","+","/">>

B64Sextet(c) == (CHOOSE i \in 1..64 : B64Alphabet[i] = c) - 1

\* base64.b64decode on well-formed padded input (a sequence of characters
\* whose length is a multiple of 4): each group of four sextets gives three
\* bytes, fewer when the group ends in "=" padding.
RECURSIVE b64decode(_)
b64decode(s) ==
    IF Len(s) < 4 THEN <<>>
    ELSE LET pad == IF s[3] = "=" THEN 2 ELSE IF s[4] = "=" THEN 1 ELSE 0
             v(i) == IF s[i] = "=" THEN 0 ELSE B64Sextet(s[i])
             n == v(1) * 262144 + v(2) * 4096 + v(3) * 64 + v(4)
             b1 == n \div 65536
             b2 == (n \div 256) % 256
             b3 == n % 256
             grp == IF pad = 2 THEN <<b1>>
                    ELSE IF pad = 1 THEN <<b1, b2>>
                    ELSE <<b1, b2, b3>>
         IN  grp \o b64decode(SubSeq(s, 5, Len(s)))

\* bytes.decode("utf-8") for the one- and two-byte forms: a byte below 128 is
\* its own code point, 110xxxxx 10yyyyyy is xxxxxyyyyyy; anything else makes
\* the result <<-1>>, standing for UnicodeDecodeError.
RECURSIVE decodeUtf8(_)
decodeUtf8(bytes) ==
    IF bytes = <<>> THEN <<>>
    ELSE LET b == bytes[1]
             two == /\ b >= 194 /\ b < 224 /\ Len(bytes) >= 2
                    /\ bytes[2] >= 128 /\ bytes[2] < 192
             rest == decodeUtf8(SubSeq(bytes, IF two THEN 3 ELSE 2, Len(bytes)))
         IN  IF rest = <<-1>> THEN <<-1>>
             ELSE IF b < 128 THEN <<b>> \o rest
             ELSE IF two THEN <<(b - 192) * 64 + (bytes[2] - 128)>> \o rest
             ELSE <<-1>>

B64_root == <<"c","m","9","v","d","A","=","=">>
B64_hunter2 == <<"a","H","V","u","d","G","V","y","M","g","=","=">>
B64_admin == <<"Y","W","R","t","a","W","4","=">>

\* ---------------------------------------------------- constructor inputs
NoneDict == [type |-> "NoneType", items |-> {}]
Dict(items) == [type |-> "dict", items |-> items]
NoneStr == [type |-> "NoneType", val |-> ""]
Str(v) == [type |-> "str", val |-> v]

HasKey(d, k) == \E kv \in d.items : kv[1] = k
DictGet(d, k) == (CHOOSE kv \in d.items : kv[1] = k)[2]

\* Python truthiness of the optional arguments.
TruthyDict(d) == d.type = "dict" /\ d.items # {}
TruthyStr(s) == s.type = "str" /\ s.val # ""

CredsInputs ==
    { NoneDict,
      Dict({}),
      Dict({<<"userName", Str_admin>>, <<"password", Str_secret>>}) }

ServiceInputs == { NoneStr, Str("mongo.svc") }

ClusterInputs == { "None", "cluster" }

\* ------------------------------------------------- collaborator outcomes
\* What one run of `oc get secret vision-secrets -o json` can give: the
\* command cannot be started, it exits non-zero, or it exits 0 with a JSON
\* document whose "data" object is `data`.
SecretData ==
    { {<<"mongodb-admin-username", B64_root>>,
       <<"mongodb-admin-password", B64_hunter2>>},
      {<<"mongodb-admin-username", B64_admin>>} }

CredResults ==
    { [started |-> FALSE, returncode |-> 0, data |-> Dict({})],
      [started |-> TRUE, returncode |-> 1, data |-> Dict({})] }
    \cup { [started |-> TRUE, returncode |-> 0, data |-> Dict(d)] : d \in SecretData }

PodNames == { "app-mongodb-0", "app-mongodb-1" }

\* cluster.getPods returns an ordered, possibly empty sequence of distinct
\* pod names.
PodLists ==
    { l \in UNION { [1..n -> PodNames] : n \in 0..MaxPods } :
        \A i, j \in DOMAIN l : i # j => l[i] # l[j] }

\* Everything the environment decides during one connectToMongo call.
ConnectEnvs ==
    [ cred : CredResults,
      pods : PodLists,
      tunnelStarts : BOOLEAN,     \* subprocess.Popen(port-forward) returns
      clientBuilds : BOOLEAN ]    \* pymongo.MongoClient(uri) returns

\* ------------------------------------------------------- execution state
\* The methods below are operators on an execution state `st`: the three
\* mutable fields of the object, the subprocesses and clients that exist,
\* the trace of external effects of the running call, the pod sequence the
\* registry returned during it (`pods`), the exception being propagated
\* (`raised`) and the value returned by the last helper (`ret`).
Raise(st, e) == [st EXCEPT !.raised = e]
\* An external effect is recorded with one argument: the exit status for
\* "oc get secret" (-1 when the command could not be started), the number of
\* pods returned for "getPods", the subprocess or client concerned otherwise.
Emit(st, ev, arg) == [st EXCEPT !.trace = Append(@, [ev |-> ev, arg |-> arg])]

CredsError == "MviMongoException: Could not get Mongo connection info."
PodError == "MviMongoException: Could not find MongoDB Pod."

\* getMongoDbCredentials with the supplied credentials ignored: the cluster
\* secret is read whatever the constructor was given.
getMongoDbCredentials_ClusterOnly(st, env) ==
    LET s1 == Emit(st, "oc get secret",
                   IF env.cred.started THEN env.cred.returncode ELSE -1)
        data == env.cred.data
    IN  IF ~env.cred.started THEN Raise(s1, "OSError")
        ELSE IF env.cred.returncode # 0 THEN Raise(s1, CredsError)
        ELSE IF ~HasKey(data, "mongodb-admin-username")
                \/ ~HasKey(data, "mongodb-admin-password")
        THEN Raise(s1, "KeyError")
        ELSE [s1 EXCEPT !.ret =
                 <<decodeUtf8(b64decode(DictGet(data, "mongodb-admin-username"))),
                   decodeUtf8(b64decode(DictGet(data, "mongodb-admin-password")))>>]

\* getMongoDbCredentials: the supplied pair, or else the decoded fields of
\* the cluster secret. ret = <<userName, password>>.
getMongoDbCredentials(st, env) ==
    IF mongoDbCreds.type # "NoneType"
    THEN IF HasKey(mongoDbCreds, "userName") /\ HasKey(mongoDbCreds, "password")
         THEN [st EXCEPT !.ret = <<DictGet(mongoDbCreds, "userName"),
                                   DictGet(mongoDbCreds, "password")>>]
         ELSE Raise(st, "KeyError")
    ELSE LET s1 == Emit(st, "oc get secret",
                        IF env.cred.started THEN env.cred.returncode ELSE -1)
             data == env.cred.data
         IN  IF ~env.cred.started THEN Raise(s1, "OSError")
             ELSE IF env.cred.returncode = 0
             THEN IF ~HasKey(data, "mongodb-admin-username") THEN Raise(s1, "KeyError")
                  ELSE LET userName == decodeUtf8(b64decode(DictGet(data, "mongodb-admin-username")))
                       IN  IF userName = <<-1>> THEN Raise(s1, "UnicodeDecodeError")
                           ELSE IF ~HasKey(data, "mongodb-admin-password") THEN Raise(s1, "KeyError")
                           ELSE LET password == decodeUtf8(b64decode(DictGet(data, "mongodb-admin-password")))
                                IN  IF password = <<-1>> THEN Raise(s1, "UnicodeDecodeError")
                                    ELSE [s1 EXCEPT !.ret = <<userName, password>>]
             ELSE Raise(s1, CredsError)

\* establishOcpTunnel with the launch wrapped in a try/except that swallows
\* the error: a failed launch returns normally, storing nothing.
establishOcpTunnel_SwallowsFailure(st, env, mongoPod, remotePort, localPort) ==
    IF ~env.tunnelStarts THEN Emit(st, "port-forward failed", 0)
    ELSE LET id == Len(st.tunnels) + 1
             proc == [address |-> "0.0.0.0", pod |-> mongoPod,
                      localPort |-> localPort, remotePort |-> remotePort,
                      signals |-> <<>>]
         IN  [Emit(st, "port-forward", id) EXCEPT
                 !.tunnels = Append(@, proc),
                 !.tunnelProcess = id]

\* establishOcpTunnel with the Popen object kept in a local variable: the
\* subprocess is launched but tunnelProcess is not set.
establishOcpTunnel_HandleDropped(st, env, mongoPod, remotePort, localPort) ==
    IF ~env.tunnelStarts THEN Raise(Emit(st, "port-forward failed", 0), "OSError")
    ELSE LET id == Len(st.tunnels) + 1
             proc == [address |-> "0.0.0.0", pod |-> mongoPod,
                      localPort |-> localPort, remotePort |-> remotePort,
                      signals |-> <<>>]
         IN  [Emit(st, "port-forward", id) EXCEPT !.tunnels = Append(@, proc)]

\* establishOcpTunnel: launch `oc port-forward --address 0.0.0.0 <pod>
\* <localPort> <remotePort>` and keep the Popen object in tunnelProcess.
establishOcpTunnel(st, env, mongoPod, remotePort, localPort) ==
    IF ~env.tunnelStarts THEN Raise(Emit(st, "port-forward failed", 0), "OSError")
    ELSE LET id == Len(st.tunnels) + 1
             proc == [address |-> "0.0.0.0", pod |-> mongoPod,
                      localPort |-> localPort, remotePort |-> remotePort,
                      signals |-> <<>>]
         IN  [Emit(st, "port-forward", id) EXCEPT
                 !.tunnels = Append(@, proc),
                 !.tunnelProcess = id]

\* getOcpMongoPod returning the last pod of the sequence (pods[-1]).
getOcpMongoPod_LastPod(st, env) ==
    IF cluster = "None" THEN Raise(st, "AttributeError")
    ELSE LET s1 == Emit(st, "getPods", Len(env.pods))
         IN  [s1 EXCEPT !.pods = env.pods,
                        !.ret = IF Len(env.pods) > 0 THEN env.pods[Len(env.pods)] ELSE ""]

\* getOcpMongoPod: the first pod whose name contains "-mongodb-", or "" when
\* the registry returns none. ret = the pod name.
getOcpMongoPod(st, env) ==
    IF cluster = "None" THEN Raise(st, "AttributeError")
    ELSE LET s1 == Emit(st, "getPods", Len(env.pods))
         IN  [s1 EXCEPT !.pods = env.pods,
                        !.ret = IF Len(env.pods) > 0 THEN env.pods[1] ELSE ""]

\* The value getOcpMongoPod hands back that tunnelToOcpMongo takes to mean
\* "no pod": the test in the code is `pod is None`.
IsNone(pod) == FALSE

\* tunnelToOcpMongo
tunnelToOcpMongo(st, env) ==
    LET s1 == getOcpMongoPod(st, env)
    IN  IF s1.raised # "" THEN s1
        ELSE IF IsNone(s1.ret) THEN Raise(s1, PodError)
        ELSE establishOcpTunnel(s1, env, s1.ret, MongoPort, MongoPort)

\* getMongoHostName with the `else` lost: the tunnel is set up also when a
\* service name was given.
getMongoHostName_AlwaysTunnel(st, env) ==
    LET s1 == tunnelToOcpMongo(st, env)
    IN  IF s1.raised # "" THEN s1
        ELSE [s1 EXCEPT !.ret = IF TruthyStr(mongoService)
                                THEN mongoService.val ELSE "localhost"]

\* getMongoHostName: the service name when one was given (and is non-empty),
\* otherwise "localhost" after setting up the tunnel. ret = the host name.
getMongoHostName(st, env) ==
    IF TruthyStr(mongoService)
    THEN [st EXCEPT !.ret = mongoService.val]
    ELSE LET s1 == tunnelToOcpMongo(st, env)
         IN  IF s1.raised # "" THEN s1 ELSE [s1 EXCEPT !.ret = "localhost"]

\* loginToDb with the two mechanisms swapped.
loginToDb_MechanismSwapped(st, env, user, passwd, hostname, database) ==
    LET authProtocol == IF mviVersion = 1 THEN "SCRAM-SHA-1" ELSE "MONGODB-CR"
        uri == [user |-> user, passwd |-> passwd, hostname |-> hostname,
                port |-> MongoPort, authSource |-> database,
                authMechanism |-> authProtocol]
    IN  IF ~env.clientBuilds THEN Raise(Emit(st, "MongoClient failed", 0), "PyMongoError")
        ELSE LET id == Len(st.clients) + 1
             IN  [Emit(st, "MongoClient", id) EXCEPT
                     !.clients = Append(@, [uri |-> uri, closes |-> 0]),
                     !.mongoClient = id,
                     !.mviDatabase = id]

\* loginToDb: build the URI and the client, then select the database.
loginToDb(st, env, user, passwd, hostname, database) ==
    LET authProtocol == IF mviVersion = 1 THEN "MONGODB-CR" ELSE "SCRAM-SHA-1"
        uri == [user |-> user, passwd |-> passwd, hostname |-> hostname,
                port |-> MongoPort, authSource |-> database,
                authMechanism |-> authProtocol]
    IN  IF ~env.clientBuilds THEN Raise(Emit(st, "MongoClient failed", 0), "PyMongoError")
        ELSE LET id == Len(st.clients) + 1
             IN  [Emit(st, "MongoClient", id) EXCEPT
                     !.clients = Append(@, [uri |-> uri, closes |-> 0]),
                     !.mongoClient = id,
                     !.mviDatabase = id]

\* connectToMongo with the two resolution steps swapped: the host name (and
\* the tunnel) first, the credentials after.
connectToMongo_HostFirst(st, env) ==
    LET s1 == getMongoHostName(st, env)
    IN  IF s1.raised # "" THEN s1
        ELSE LET s2 == getMongoDbCredentials(s1, env)
             IN  IF s2.raised # "" THEN s2
                 ELSE loginToDb(s2, env, s2.ret[1], s2.ret[2], s1.ret, "DLAAS")

\* connectToMongo: credentials, then host name (and tunnel), then login.
connectToMongo(st, env) ==
    LET s1 == getMongoDbCredentials(st, env)
    IN  IF s1.raised # "" THEN s1
        ELSE LET s2 == getMongoHostName(s1, env)
             IN  IF s2.raised # "" THEN s2
                 ELSE loginToDb(s2, env, s1.ret[1], s1.ret[2], s2.ret, "DLAAS")

\* getMongoClient
getMongoClient(st) == [st EXCEPT !.ret = st.mongoClient]

\* getMviDatabase
getMviDatabase(st) == [st EXCEPT !.ret = st.mviDatabase]

\* disconnectFromMongo: self.mongoClient.close(); None has no close().
disconnectFromMongo(st) ==
    IF st.mongoClient = 0 THEN Raise(st, "AttributeError")
    ELSE [Emit(st, "client.close", st.mongoClient) EXCEPT
             !.clients[st.mongoClient].closes = @ + 1]

\* Whether close() releases anything: `if self.tunnelProcess:`.
closeReleases(st) == st.tunnelProcess # 0

\* close with the two releases swapped: the signal first, the client after.
close_SignalFirst(st) ==
    IF closeReleases(st)
    THEN LET s1 == [Emit(st, "send_signal", st.tunnelProcess) EXCEPT
                       !.tunnels[st.tunnelProcess].signals = Append(@, "SIGTERM")]
             s2 == disconnectFromMongo(s1)
         IN  IF s2.raised # "" THEN s2 ELSE [s2 EXCEPT !.tunnelProcess = 0]
    ELSE [st EXCEPT !.tunnelProcess = 0]

\* close that also forgets the client: mongoClient and mviDatabase are set
\* to None next to tunnelProcess.
close_ClearsClient(st) ==
    IF closeReleases(st)
    THEN LET s1 == disconnectFromMongo(st)
         IN  IF s1.raised # "" THEN s1
             ELSE [Emit(s1, "send_signal", s1.tunnelProcess) EXCEPT
                      !.tunnels[s1.tunnelProcess].signals = Append(@, "SIGTERM"),
                      !.tunnelProcess = 0, !.mongoClient = 0, !.mviDatabase = 0]
    ELSE [st EXCEPT !.tunnelProcess = 0, !.mongoClient = 0, !.mviDatabase = 0]

\* close. Client.close() and Popen.send_signal() are taken to return
\* normally.
close(st) ==
    IF closeReleases(st)
    THEN LET s1 == disconnectFromMongo(st)
         IN  IF s1.raised # "" THEN s1
             ELSE [Emit(s1, "send_signal", s1.tunnelProcess) EXCEPT
                      !.tunnels[s1.tunnelProcess].signals = Append(@, "SIGTERM"),
                      !.tunnelProcess = 0]
    ELSE [st EXCEPT !.tunnelProcess = 0]

\* ------------------------------------------------------------ the object
\* __init__
Init ==
    /\ mongoDbCreds \in CredsInputs
    /\ mongoService \in ServiceInputs
    /\ cluster \in ClusterInputs
    /\ tunnelProcess = 0
    /\ mongoClient = 0
    /\ mviDatabase = 0
    /\ mviVersion = IF TruthyDict(mongoDbCreds) THEN 1 ELSE 2
    /\ tunnels = <<>>
    /\ clients = <<>>
    /\ calls = <<>>
    /\ scope = "outside"

\* The execution state at the start of a call.
Entry ==
    [tunnelProcess |-> tunnelProcess, mongoClient |-> mongoClient,
     mviDatabase |-> mviDatabase, tunnels |-> tunnels, clients |-> clients,
     trace |-> <<>>, pods |-> <<>>, raised |-> "", ret |-> ""]

\* The effect of a call that ran from Entry to `st`: the fields and the
\* collaborators are as the call left them (also when it raised), and the
\* call is appended to the history, with the pods the registry returned
\* during it, the value an accessor returned (`ret`, 0 for None) and the
\* three fields as the call left them. `exc` tells whether __exit__ was
\* handed an exception.
Return(op, st, exc) ==
    /\ tunnelProcess' = st.tunnelProcess
    /\ mongoClient' = st.mongoClient
    /\ mviDatabase' = st.mviDatabase
    /\ tunnels' = st.tunnels
    /\ clients' = st.clients
    /\ calls' = Append(calls,
          [op |-> op, raised |-> st.raised, trace |-> st.trace, exc |-> exc,
           pods |-> st.pods,
           ret |-> IF op \in {"getMongoClient", "getMviDatabase"} THEN st.ret ELSE 0,
           tunnelProcess |-> st.tunnelProcess,
           mongoClient |-> st.mongoClient,
           mviDatabase |-> st.mviDatabase])
    /\ UNCHANGED <<mongoDbCreds, mongoService, cluster, mviVersion>>

\* A direct call of connectToMongo().
ConnectToMongo ==
    /\ Len(calls) < MaxCalls
    /\ \E env \in ConnectEnvs : Return("connectToMongo", connectToMongo(Entry, env), FALSE)
    /\ UNCHANGED scope

\* A direct call of close().
Close ==
    /\ Len(calls) < MaxCalls
    /\ Return("close", close(Entry), FALSE)
    /\ UNCHANGED scope

\* A call of getMongoClient().
GetMongoClient ==
    /\ Len(calls) < MaxCalls
    /\ Return("getMongoClient", getMongoClient(Entry), FALSE)
    /\ UNCHANGED scope

\* A call of getMviDatabase().
GetMviDatabase ==
    /\ Len(calls) < MaxCalls
    /\ Return("getMviDatabase", getMviDatabase(Entry), FALSE)
    /\ UNCHANGED scope

\* `with MongoAccessor(...) as accessor:` reaches __enter__ on the instance
\* just constructed. When __enter__ raises, the with statement is left at
\* once and __exit__ is not called.
Enter ==
    /\ scope = "outside"
    /\ calls = <<>>
    /\ \E env \in ConnectEnvs :
          LET st == connectToMongo(Entry, env)
          IN  /\ Return("__enter__", st, FALSE)
              /\ scope' = IF st.raised = "" THEN "body" ELSE "left"

\* The with block ends, normally or with an exception: __exit__ runs close().
Exit ==
    /\ scope = "body"
    /\ \E exc \in BOOLEAN : Return("__exit__", close(Entry), exc)
    /\ scope' = "left"

Next ==
    \/ ConnectToMongo
    \/ Close
    \/ GetMongoClient
    \/ GetMviDatabase
    \/ Enter
    \/ Exit

Spec == Init /\ [][Next]_vars

TypeOK ==
    /\ tunnelProcess \in 0..Len(tunnels)
    /\ mongoClient \in 0..Len(clients)
    /\ mviDatabase = mongoClient
    /\ mviVersion \in {1, 2}
    /\ scope \in {"outside", "body", "left"}
    /\ Len(calls) <= MaxCalls + 1

\* ------------------------------------------------ vocabulary of the claims
IsConnect(c) == c.op \in {"connectToMongo", "__enter__"}
IsClose(c) == c.op \in {"close", "__exit__"}

\* The positions of the effects `ev` in the trace of call c, and their
\* arguments.
Events(c, ev) == { k \in DOMAIN c.trace : c.trace[k].ev = ev }
Args(c, ev) == { c.trace[k].arg : k \in Events(c, ev) }
Did(c, ev) == Events(c, ev) # {}

\* Tunnel t has been sent a signal.
Signalled(t) == tunnels[t].signals # <<>>

\* The configurations the claims speak of. An explicit pair of credentials
\* is a dict holding both keys; a supplied service name is a non-empty
\* string; either is omitted when the argument is None.
CredsSupplied ==
    /\ mongoDbCreds.type = "dict"
    /\ HasKey(mongoDbCreds, "userName") /\ HasKey(mongoDbCreds, "password")
CredsOmitted == mongoDbCreds.type = "NoneType"
ServiceSupplied == mongoService.type = "str" /\ mongoService.val # ""
ServiceOmitted == mongoService.type = "NoneType"

\* -------------------------------------------------------------------- C1
\* C1: once a with statement whose __enter__ launched a tunnel subprocess
\* has been left, however it was left (a failure inside __enter__ included),
\* __exit__ has run close() exactly once and that subprocess has been sent a
\* termination signal.
C1_ScopeAlwaysCloses ==
    scope = "left" =>
        \A i \in DOMAIN calls :
            (calls[i].op = "__enter__" /\ Did(calls[i], "port-forward")) =>
                /\ Cardinality({ j \in DOMAIN calls : calls[j].op = "__exit__" }) = 1
                /\ \A t \in Args(calls[i], "port-forward") : Signalled(t)

\* -------------------------------------------------------------------- C2
\* C2: when a connect has launched the tunnel and then failed to build the
\* client, no client having ever been set, the close() that follows signals
\* the tunnel with SIGTERM and clears tunnelProcess.
C2_PartialConnectReleasable ==
    \A i \in DOMAIN calls :
        ( /\ i > 1
          /\ IsClose(calls[i])
          /\ IsConnect(calls[i-1])
          /\ Did(calls[i-1], "port-forward")
          /\ Did(calls[i-1], "MongoClient failed")
          /\ clients = <<>> ) =>
            /\ \A t \in Args(calls[i-1], "port-forward") :
                  [ev |-> "send_signal", arg |-> t] \in
                      { calls[i].trace[k] : k \in DOMAIN calls[i].trace }
            /\ (i = Len(calls) => tunnelProcess = 0)

\* -------------------------------------------------------------------- C3
\* C3: no call of close() raises, whatever calls came before it.
C3_CloseNeverRaises ==
    \A i \in DOMAIN calls : IsClose(calls[i]) => calls[i].raised = ""

\* -------------------------------------------------------------------- C4
\* C4: a close() that follows a successful connect closes the client that
\* connect built and, when that connect launched a tunnel, sends it SIGTERM
\* and clears tunnelProcess.
C4_CloseReleasesConnection ==
    \A i \in DOMAIN calls :
        ( /\ i > 1
          /\ IsClose(calls[i])
          /\ IsConnect(calls[i-1])
          /\ calls[i-1].raised = "" ) =>
            /\ \A c \in Args(calls[i-1], "MongoClient") :
                  Did(calls[i], "client.close") /\ clients[c].closes >= 1
            /\ \A t \in Args(calls[i-1], "port-forward") :
                  /\ tunnels[t].signals = <<"SIGTERM">>
                  /\ (i = Len(calls) => tunnelProcess = 0)

\* -------------------------------------------------------------------- C5
\* C5: a close() on an instance on which no connect has succeeded, and each
\* of two close() calls in a row, raises nothing; the second of two in a row
\* releases nothing; and no tunnel subprocess is signalled twice.
C5_CloseIdempotent ==
    /\ \A i \in DOMAIN calls :
          ( /\ IsClose(calls[i])
            /\ \A j \in 1..(i-1) : IsConnect(calls[j]) => calls[j].raised # "" ) =>
              calls[i].raised = ""
    /\ \A i \in DOMAIN calls :
          (i > 1 /\ IsClose(calls[i]) /\ IsClose(calls[i-1])) =>
              /\ calls[i-1].raised = ""
              /\ calls[i].raised = ""
              /\ calls[i].trace = <<>>
    /\ \A t \in DOMAIN tunnels : Len(tunnels[t].signals) <= 1

\* -------------------------------------------------------------------- C6
\* C6: with no service name given, a connect during which the pod registry
\* returns an empty sequence fails with the pod-not-found error, launches no
\* tunnel subprocess and builds no client.
C6_NoPodFails ==
    ServiceOmitted =>
        \A i \in DOMAIN calls :
            (IsConnect(calls[i]) /\ 0 \in Args(calls[i], "getPods")) =>
                /\ calls[i].raised = PodError
                /\ ~Did(calls[i], "port-forward")
                /\ ~Did(calls[i], "MongoClient")

\* -------------------------------------------------------------------- C7
\* C7: with no credentials given, every connect runs `oc get secret` exactly
\* once and before any other effect (pod lookup, tunnel launch, client
\* construction); when that command exits non-zero the connect fails with
\* the credentials error and has launched no tunnel and built no client.
C7_CredentialsFetchedOnceFirst ==
    CredsOmitted =>
        \A i \in DOMAIN calls :
            IsConnect(calls[i]) =>
                /\ Cardinality(Events(calls[i], "oc get secret")) = 1
                /\ calls[i].trace[1].ev = "oc get secret"
                /\ calls[i].trace[1].arg > 0 =>
                      /\ calls[i].raised = CredsError
                      /\ ~Did(calls[i], "getPods")
                      /\ ~Did(calls[i], "port-forward")
                      /\ ~Did(calls[i], "MongoClient")

\* A connect without supplied credentials has failed on a non-zero exit of
\* `oc get secret`, and another one has got past the credentials step.
C7_Witness ==
    /\ CredsOmitted
    /\ \E i \in DOMAIN calls : IsConnect(calls[i]) /\ calls[i].raised = CredsError
    /\ \E i \in DOMAIN calls : IsConnect(calls[i]) /\ Did(calls[i], "port-forward")

\* -------------------------------------------------------------------- C8
\* C8: with a service name given, connect never queries the pod registry nor
\* launches (or tries to launch) a tunnel subprocess, tunnelProcess stays
\* None, and every client is built for exactly the given host name.
C8_ServiceNameMeansNoTunnel ==
    ServiceSupplied =>
        /\ tunnels = <<>>
        /\ tunnelProcess = 0
        /\ \A i \in DOMAIN calls :
              /\ ~Did(calls[i], "getPods")
              /\ ~Did(calls[i], "port-forward")
              /\ ~Did(calls[i], "port-forward failed")
        /\ \A c \in DOMAIN clients : clients[c].uri.hostname = mongoService.val

\* A connect with a service name given has built its client.
C8_Witness ==
    /\ ServiceSupplied
    /\ \E i \in DOMAIN calls :
          IsConnect(calls[i]) /\ calls[i].raised = "" /\ Did(calls[i], "MongoClient")

\* -------------------------------------------------------------------- C9
\* C9: with a pair of credentials given, connect never runs `oc get secret`,
\* every client is built with the given user name and password, and
\* mviVersion is 1.
C9_SuppliedCredentialsUsed ==
    CredsSupplied =>
        /\ mviVersion = 1
        /\ \A i \in DOMAIN calls : ~Did(calls[i], "oc get secret")
        /\ \A c \in DOMAIN clients :
              /\ clients[c].uri.user = DictGet(mongoDbCreds, "userName")
              /\ clients[c].uri.passwd = DictGet(mongoDbCreds, "password")

\* A connect with a pair of credentials given has built its client.
C9_Witness ==
    /\ CredsSupplied
    /\ \E i \in DOMAIN calls :
          IsConnect(calls[i]) /\ calls[i].raised = "" /\ Did(calls[i], "MongoClient")

\* ------------------------------------------------------------------- C10
\* C10: a connect called after a close() that followed a successful connect
\* fails, launching no tunnel subprocess and building no client.
C10_ClosedIsTerminal ==
    \A i, j, k \in DOMAIN calls :
        ( /\ i < j /\ j < k
          /\ IsConnect(calls[i]) /\ calls[i].raised = ""
          /\ IsClose(calls[j])
          /\ IsConnect(calls[k]) ) =>
            /\ calls[k].raised # ""
            /\ ~Did(calls[k], "port-forward")
            /\ ~Did(calls[k], "MongoClient")

\* ------------------------------------------------------------------- C11
IsAccessor(c) == c.op \in {"getMongoClient", "getMviDatabase"}

\* C11: getMongoClient and getMviDatabase, called when no connect has yet
\* succeeded, raise an error; they never return None.
C11_AccessorsFailFast ==
    \A i \in DOMAIN calls :
        ( /\ IsAccessor(calls[i])
          /\ \A j \in 1..(i-1) : IsConnect(calls[j]) => calls[j].raised # "" ) =>
            calls[i].raised # ""

\* ------------------------------------------------------------------- C12
\* The fields as they were when call i began.
Before(i) ==
    IF i = 1 THEN [tunnelProcess |-> 0, mongoClient |-> 0, mviDatabase |-> 0]
    ELSE [tunnelProcess |-> calls[i-1].tunnelProcess,
          mongoClient |-> calls[i-1].mongoClient,
          mviDatabase |-> calls[i-1].mviDatabase]

\* C12: a connect whose tunnel launch raises fails with the launch's error,
\* stores no tunnel handle (tunnelProcess is as it was) and builds no client;
\* on an instance that held no tunnel handle, the close() that follows
\* raises nothing and releases nothing.
C12_TunnelLaunchFailure ==
    \A i \in DOMAIN calls :
        (IsConnect(calls[i]) /\ Did(calls[i], "port-forward failed")) =>
            /\ calls[i].raised = "OSError"
            /\ ~Did(calls[i], "port-forward")
            /\ ~Did(calls[i], "MongoClient")
            /\ calls[i].tunnelProcess = Before(i).tunnelProcess
            /\ calls[i].mongoClient = Before(i).mongoClient
            /\ (i < Len(calls) /\ IsClose(calls[i+1]) /\ Before(i).tunnelProcess = 0) =>
                  /\ calls[i+1].raised = ""
                  /\ calls[i+1].trace = <<>>
                  /\ calls[i+1].tunnelProcess = 0

\* A connect has failed in the tunnel launch on an instance holding no
\* tunnel handle, and close() has been called after it.
C12_Witness ==
    \E i \in DOMAIN calls :
        /\ IsConnect(calls[i]) /\ Did(calls[i], "port-forward failed")
        /\ Before(i).tunnelProcess = 0
        /\ i < Len(calls) /\ IsClose(calls[i+1])

\* ------------------------------------------------------------------- C13
\* C13: a connect that fails runs none of the steps after the failing one
\* and does not leave the instance holding a tunnel handle without a client.
C13_FailedConnectNotHalfInitialized ==
    \A i \in DOMAIN calls :
        (IsConnect(calls[i]) /\ calls[i].raised # "") =>
            /\ ~Did(calls[i], "MongoClient")
            /\ ~(calls[i].tunnelProcess # 0 /\ calls[i].mongoClient = 0)

\* ------------------------------------------------------------------- C14
\* C14: every tunnel subprocess launched and not yet signalled is the one
\* tunnelProcess refers to, so there is at most one of them.
C14_TunnelHandleNeverLost ==
    \A t \in DOMAIN tunnels : ~Signalled(t) => tunnelProcess = t

\* ------------------------------------------------------------------- C15
\* The instance is connected by call i: call i is a connect that succeeded
\* and close() has not been called since.
ConnectedBy(i) ==
    /\ IsConnect(calls[i]) /\ calls[i].raised = ""
    /\ \A j \in (i+1)..Len(calls) :
          ~IsClose(calls[j]) /\ ~(IsConnect(calls[j]) /\ calls[j].raised = "")

\* C15: while the instance is connected, tunnelProcess is set if and only if
\* the connect that connected it took the tunnel path, which is the case if
\* and only if no service name was given.
C15_TunnelHandleIffTunnelPath ==
    \A i \in DOMAIN calls :
        ConnectedBy(i) =>
            /\ tunnelProcess # 0 <=> Did(calls[i], "getPods")
            /\ Did(calls[i], "getPods") <=> ~ServiceSupplied

\* The instance is connected by the tunnel path and holds the tunnel handle.
C15_Witness ==
    \E i \in DOMAIN calls :
        ConnectedBy(i) /\ Did(calls[i], "port-forward") /\ tunnelProcess # 0

\* ------------------------------------------------------------------- C16
\* C16: every client is built with MONGODB-CR exactly when the connect that
\* built it took the user name and password from the supplied credentials,
\* and with SCRAM-SHA-1 exactly when it took them from the cluster secret
\* (where the base64 of "root" / "hunter2" gives "root" / "hunter2").
C16_MechanismFollowsCredentialSource ==
    \A i \in DOMAIN calls : \A c \in Args(calls[i], "MongoClient") :
        LET fromCluster == Did(calls[i], "oc get secret")
            uri == clients[c].uri
        IN  /\ uri.authMechanism \in {"MONGODB-CR", "SCRAM-SHA-1"}
            /\ uri.authMechanism = "MONGODB-CR" <=> ~fromCluster
            /\ uri.authMechanism = "SCRAM-SHA-1" <=> fromCluster
            /\ fromCluster => uri.user = Str_root /\ uri.passwd = Str_hunter2
            /\ ~fromCluster => /\ uri.user = DictGet(mongoDbCreds, "userName")
                               /\ uri.passwd = DictGet(mongoDbCreds, "password")

\* A client has been built from the cluster secret.
C16_Witness ==
    \E i \in DOMAIN calls : \E c \in Args(calls[i], "MongoClient") :
        /\ Did(calls[i], "oc get secret")
        /\ clients[c].uri.user = Str_root
        /\ clients[c].uri.authMechanism = "SCRAM-SHA-1"

\* ------------------------------------------------------------------- C17
\* C17: a connect on the tunnel path to which the registry returns a
\* non-empty pod sequence makes one tunnel launch; the subprocess it starts
\* forwards port 27017 to port 27017 of the first pod of the sequence; and
\* the client it builds is built for "localhost".
C17_TunnelToFirstPod ==
    \A i \in DOMAIN calls :
        (IsConnect(calls[i]) /\ Did(calls[i], "getPods") /\ calls[i].pods # <<>>) =>
            /\ Cardinality(Events(calls[i], "port-forward"))
                 + Cardinality(Events(calls[i], "port-forward failed")) = 1
            /\ \A t \in Args(calls[i], "port-forward") :
                  /\ tunnels[t].pod = calls[i].pods[1]
                  /\ tunnels[t].localPort = 27017
                  /\ tunnels[t].remotePort = 27017
            /\ \A c \in Args(calls[i], "MongoClient") :
                  clients[c].uri.hostname = "localhost"

\* A connect has been given two pods, has launched the tunnel and built the
\* client.
C17_Witness ==
    \E i \in DOMAIN calls :
        /\ IsConnect(calls[i]) /\ Len(calls[i].pods) = 2
        /\ Did(calls[i], "port-forward") /\ Did(calls[i], "MongoClient")

\* ------------------------------------------------------------------- C18
\* C18: in every close(), a signal sent to the tunnel subprocess comes after
\* the close of the client the instance holds, so that client is closed when
\* the subprocess is signalled.
C18_ClientClosedBeforeSignal ==
    \A i \in DOMAIN calls :
        IsClose(calls[i]) =>
            \A k \in Events(calls[i], "send_signal") :
                \E k2 \in Events(calls[i], "client.close") :
                    /\ k2 < k
                    /\ calls[i].trace[k2].arg = Before(i).mongoClient

\* A close() has closed the client and signalled the tunnel subprocess.
C18_Witness ==
    \E i \in DOMAIN calls :
        IsClose(calls[i]) /\ Did(calls[i], "send_signal") /\ Did(calls[i], "client.close")

\* ------------------------------------------------------------------- C19
\* C19: close() leaves mongoClient and mviDatabase as they were, and after a
\* successful connect followed by close() the accessors return the client
\* and database that connect set, not None and not an error.
C19_CloseKeepsClientFields ==
    /\ \A i \in DOMAIN calls :
          IsClose(calls[i]) =>
              /\ calls[i].mongoClient = Before(i).mongoClient
              /\ calls[i].mviDatabase = Before(i).mviDatabase
    /\ \A i \in DOMAIN calls :
          ( /\ i > 2 /\ IsAccessor(calls[i]) /\ IsClose(calls[i-1])
            /\ IsConnect(calls[i-2]) /\ calls[i-2].raised = "" ) =>
              /\ calls[i].raised = ""
              /\ calls[i].ret # 0
              /\ calls[i].ret \in Args(calls[i-2], "MongoClient")

\* An accessor has been called after a successful connect and a close().
C19_Witness ==
    \E i \in DOMAIN calls :
        /\ i > 2 /\ IsAccessor(calls[i]) /\ IsClose(calls[i-1])
        /\ IsConnect(calls[i-2]) /\ calls[i-2].raised = ""
        /\ Did(calls[i-1], "send_signal")

====
